---- MODULE Spec2Model ----
(***************************************************************************)
(* Test-session orchestration of ide/api/monkey.py: interactive and batch  *)
(* test requests, the dispatch to a QEMU worker, the worker's completion    *)
(* callback, as concurrent request handlers over one database.             *)
(***************************************************************************)
EXTENDS Integers, Sequences, FiniteSets, TLC

VARIABLES
    sessions,   \* TestSession table: row i is the session with pk i
    runs,       \* TestRun table: row i is the run with pk i
    reqs,       \* run_qemu_test / post_test_session requests, in arrival order
    cbs,        \* notify_test_session requests, in arrival order
    sent,       \* dispatch calls that reached a worker
    queue,      \* run_test_session.delay(): the task runner's queue
    qemu_urls,  \* settings.QEMU_URLS
    sel         \* the last worker selection made on its own (SelectSpec)

vars == <<sessions, runs, reqs, cbs, sent, queue, qemu_urls, sel>>

----------------------------------------------------------------------------
(* Bounds of the model *)

\* the requests and callbacks handled in one run
MaxHandlers == 3
\* the length of settings.QEMU_URLS when the worker selection is checked alone
MaxUrls == 2

----------------------------------------------------------------------------
(* Values *)

\* Python's None and a present value: a nullable column or an optional result
None == <<>>
Some(x) == <<x>>

\* a POST field that the request does not carry
Missing == "<missing>"
NoLog == "<none>"

\* TestCode
PENDING == "PENDING"
PASSED == "PASSED"
FAILED == "FAILED"
ERROR == "ERROR"
Terminal == {PASSED, FAILED, ERROR}

\* settings.QEMU_LAUNCH_AUTH_HEADER, the launch tokens a client may post with a
\* test request, and the tokens a callback may carry
Secret == "secret"
LaunchTokens == {"tok"}
Tokens == {Secret} \cup LaunchTokens

\* Fixtures: the users, projects and test files the database holds
Users == {"u1", "u2"}
Projects == {"p1", "p2"}
ProjectIds == Projects \cup {"p9"}
Tests == {"t1", "t2"}
\* the test ids a request may name
TestIds == {"t1"}
ProjectOwner(p) == IF p = "p1" THEN "u1" ELSE "u2"
TestProject(t) == "p1"
\* the project's test files in pk order: p2 has none
ProjectTests(p) == IF p = "p1" THEN <<"t1", "t2">> ELSE <<>>

\* Worker addresses and host hints are strings: sequences of characters
Addresses == {<<"a", "1">>, <<"a", "1", "0">>, <<"b">>}
DefaultUrls == <<<<"a", "1">>, <<"b">>>>
Hints == {<<>>, <<"a">>, <<"1">>, <<"0">>, <<"a", "1">>, <<"1", "0">>, <<"b">>, <<"z">>}
Hosts == {<<"b">>, <<"z">>}

\* the instants timezone.now() may return: what is read of a time is whether
\* it is set and whether it equals another, so two instants are told apart
Times == {"t0", "t1"}

\* the log texts a worker may post, and the e.message of a failed dispatch
Logs == {"la"}
ConnectionError == "ConnectionError"
HTTPError == "HTTPError"

\* the texts a worker may post as code
CodeTexts == {<<"0">>, <<"1">>, <<"7">>, <<"-", "1">>, <<"x">>}

----------------------------------------------------------------------------
(* Pure helpers *)

Range(s) == {s[i] : i \in DOMAIN s}

\* a host matched against the start of the address only
IsPrefix(host, x) ==
    Len(host) <= Len(x) /\ SubSeq(x, 1, Len(host)) = host

\* Python's `host in x` on strings
IsSubstring(host, x) ==
    \E i \in 0..(Len(x) - Len(host)) : SubSeq(x, i + 1, i + Len(host)) = host

\* the iteration orders of set(settings.QEMU_URLS)
Orders(S) ==
    {o \in [1..Cardinality(S) -> S] : \A x \in S : \E i \in DOMAIN o : o[i] = x}

\* next(x for x in order if host in x): None stands for StopIteration
FirstMatch(order, host) ==
    LET idx == {i \in DOMAIN order : IsSubstring(host, order[i])}
    IN  IF idx = {} THEN None
        ELSE Some(order[CHOOSE i \in idx : \A j \in idx : i <= j])

\* int(text): an optional sign and decimal digits; None stands for ValueError
Digits == <<"0", "1", "2", "3", "4", "5", "6", "7", "8", "9">>
IsDigit(ch) == \E d \in DOMAIN Digits : Digits[d] = ch
DigitVal(ch) == (CHOOSE d \in DOMAIN Digits : Digits[d] = ch) - 1
RECURSIVE DigitsVal(_)
DigitsVal(s) ==
    IF s = <<>> THEN 0
    ELSE 10 * DigitsVal(SubSeq(s, 1, Len(s) - 1)) + DigitVal(s[Len(s)])
ParseInt(text) ==
    LET signed == Len(text) > 0 /\ text[1] \in {"-", "+"}
        body == IF signed THEN Tail(text) ELSE text
    IN  IF body = <<>> \/ \E i \in DOMAIN body : ~IsDigit(body[i]) THEN None
        ELSE IF signed /\ text[1] = "-" THEN Some(0 - DigitsVal(body))
        ELSE Some(DigitsVal(body))

\* every code from 1 up taken as a failure
ResultOfPositive(code) ==
    IF code = 0 THEN PASSED
    ELSE IF code >= 1 THEN FAILED
    ELSE ERROR

\* lines 195-200
ResultOf(code) ==
    IF code = 0 THEN PASSED
    ELSE IF code = 1 THEN FAILED
    ELSE ERROR

\* get_object_or_404(Project, pk=project_id, owner=request.user)
ProjectVisible(project, user) == project \in Projects /\ ProjectOwner(project) = user
\* the test looked up without its project
TestExists(test, project) == test \in Tests

\* get_object_or_404(TestFile, pk=test_id, project=project)
TestBelongs(test, project) == test \in Tests /\ TestProject(test) = project
\* get_object_or_404(TestSession, pk=int(session_id), project=project)
SessionOf(sid, project) == sid \in DOMAIN sessions /\ sessions[sid].project = project
\* the token compared with the tokens forwarded to the workers
TokenForwarded(token) == \E d \in sent : d.token = token

\* a token accepted whenever one is posted
TokenPresent(token) == token # Missing

\* token != settings.QEMU_LAUNCH_AUTH_HEADER
TokenOk(token) == token = Secret

\* session.runs.all(): the pks of the runs a session owns
RunsOf(sid) == {i \in DOMAIN runs : runs[i].session = sid}

----------------------------------------------------------------------------
(* Run Registry: TestSession.setup_test_session *)

NewSession(project) ==
    [project |-> project, date_started |-> None, date_completed |-> None]
NewRun(sid, test) ==
    [session |-> sid, test |-> test, code |-> PENDING, log |-> NoLog,
     date_started |-> None, date_completed |-> None]

\* the rows setup_test_session adds for the tests, and the objects it returns
SetupRuns(sid, tests) ==
    [i \in DOMAIN tests |-> [id |-> Len(runs) + i, row |-> NewRun(sid, tests[i])]]
Rows(objs) == [i \in DOMAIN objs |-> objs[i].row]

----------------------------------------------------------------------------
(* Requests *)

\* A request handler's frame: the fields it has read and the objects it holds.
\* Once it has answered, its frame is gone: what is left is the request line
\* (kind, project, test), the answer (status, msg) and the session it created.
Request(kind) ==
    [kind |-> kind, pc |-> "done", status |-> 0, user |-> "-", project |-> "-",
     test |-> "-", tests |-> None, token |-> "-", host |-> <<>>, server |-> <<>>,
     session |-> 0, runs |-> <<>>, msg |-> ""]

Answered(r, status, msg) ==
    [Request(r.kind) EXCEPT !.status = status, !.msg = msg, !.session = r.session,
                            !.project = r.project, !.test = r.test, !.tests = r.tests]

\* run_qemu_test, lines 147-157: the lookups, the worker selection and the
\* creation of the session and its run
ReqInteractive ==
    /\ Len(reqs) + Len(cbs) < MaxHandlers
    /\ \E user \in Users, project \in Projects :
        LET r0 == [Request("interactive") EXCEPT !.user = user, !.project = project]
        IN  IF ~ProjectVisible(project, user)
            THEN /\ reqs' = Append(reqs, Answered(r0, 404, ""))
                 /\ UNCHANGED <<sessions, runs>>
            ELSE \E test \in TestIds :
                LET r1 == [r0 EXCEPT !.test = test]
                IN  IF ~TestBelongs(test, project)
                    THEN /\ reqs' = Append(reqs, Answered(r1, 404, ""))
                         /\ UNCHANGED <<sessions, runs>>
                    ELSE \E token \in LaunchTokens, host \in Hosts,
                            order \in Orders(Range(qemu_urls)) :
                        LET r2 == [r1 EXCEPT !.token = token, !.host = host]
                            server == FirstMatch(order, host)
                            sid == Len(sessions) + 1
                            objs == SetupRuns(sid, <<test>>)
                        IN  IF server = None
                            THEN /\ reqs' = Append(reqs, Answered(r2, 500, "StopIteration"))
                                 /\ UNCHANGED <<sessions, runs>>
                            ELSE /\ sessions' = Append(sessions, NewSession(project))
                                 /\ runs' = runs \o Rows(objs)
                                 /\ reqs' = Append(reqs,
                                        [r2 EXCEPT !.pc = "created", !.server = server[1],
                                                   !.session = sid, !.runs = objs])
    /\ UNCHANGED <<cbs, sent, queue, qemu_urls, sel>>

\* lines 160-164: requests.post reaches the worker, which holds the token and the
\* callback address from then on
ReqPostDelivered(r) ==
    /\ reqs[r].kind = "interactive" /\ reqs[r].pc = "created"
    /\ sent' = sent \cup {[session |-> reqs[r].session, project |-> reqs[r].project,
                           server |-> reqs[r].server, token |-> reqs[r].token]}
    /\ reqs' = [reqs EXCEPT ![r].pc = "waiting"]
    /\ UNCHANGED <<sessions, runs, cbs, queue, qemu_urls, sel>>

\* lines 161-167 succeed and lines 175-176 follow: result.json() parses the
\* worker's acknowledgement, or raises
ReqPostOk(r) ==
    /\ reqs[r].pc = "waiting"
    /\ \/ reqs' = [reqs EXCEPT ![r] = Answered(reqs[r], 200, "")]
       \/ reqs' = [reqs EXCEPT ![r] = Answered(reqs[r], 500, "ValueError")]
    /\ UNCHANGED <<sessions, runs, cbs, sent, queue, qemu_urls, sel>>

\* the run marked without its log
ErrorRowNoLog(row, msg) == [row EXCEPT !.code = ERROR]

\* lines 171-173: run.save() writes every column of the request's own copy
ErrorRow(row, msg) == [row EXCEPT !.code = ERROR, !.log = msg]

\* every run of the table marked
MarkErrorsAll(table, objs, msg) ==
    [k \in DOMAIN table |-> ErrorRow(table[k], msg)]

\* the table after the saves of lines 170-173
MarkErrors(table, objs, msg) ==
    [k \in DOMAIN table |->
        IF \E i \in DOMAIN objs : objs[i].id = k
        THEN ErrorRow(objs[CHOOSE i \in DOMAIN objs : objs[i].id = k].row, msg)
        ELSE table[k]]

\* the failure handling closing the session as well
ReqPostFailCompletes(r) ==
    /\ reqs[r].kind = "interactive"
    /\ \E msg \in {ConnectionError, HTTPError} :
        /\ \/ reqs[r].pc = "created" /\ msg = ConnectionError
           \/ reqs[r].pc = "waiting" /\ msg = HTTPError
        /\ runs' = MarkErrors(runs, reqs[r].runs, msg)
        /\ reqs' = [reqs EXCEPT ![r] = Answered(reqs[r], 500, msg)]
    /\ sessions' = [sessions EXCEPT ![reqs[r].session].date_completed = Some("t0")]
    /\ UNCHANGED <<cbs, sent, queue, qemu_urls, sel>>

\* a failed call tried again
ReqPostRetry(r) ==
    /\ reqs[r].kind = "interactive"
    /\ \/ /\ reqs[r].pc = "created"
          /\ runs' = MarkErrors(runs, reqs[r].runs, ConnectionError)
          /\ reqs' = [reqs EXCEPT ![r] = Answered(reqs[r], 500, ConnectionError)]
       \/ /\ reqs[r].pc = "waiting"
          /\ runs' = runs
          /\ reqs' = [reqs EXCEPT ![r].pc = "created"]
    /\ UNCHANGED <<sessions, cbs, sent, queue, qemu_urls, sel>>

\* lines 161-174: requests.post raises before the worker is reached, or the
\* worker's answer is lost or is an error status (raise_for_status); the run of
\* the request (runs holds the one run of [test.id]) is saved as ERROR and the
\* exception is raised again
ReqPostFail(r) ==
    /\ reqs[r].kind = "interactive"
    /\ \E msg \in {ConnectionError, HTTPError} :
        /\ \/ reqs[r].pc = "created" /\ msg = ConnectionError
           \/ reqs[r].pc = "waiting" /\ msg = HTTPError
        /\ runs' = MarkErrors(runs, reqs[r].runs, msg)
        /\ reqs' = [reqs EXCEPT ![r] = Answered(reqs[r], 500, msg)]
    /\ UNCHANGED <<sessions, cbs, sent, queue, qemu_urls, sel>>

\* post_test_session, lines 233-241: the lookup and the creation of the session
\* and its runs; tests is None for every test of the project
TestLists == {<<t>> : t \in TestIds}
ReqBatch ==
    /\ Len(reqs) + Len(cbs) < MaxHandlers
    /\ \E user \in Users, project \in Projects :
        LET r0 == [Request("batch") EXCEPT !.user = user, !.project = project]
        IN  IF ~ProjectVisible(project, user)
            THEN /\ reqs' = Append(reqs, Answered(r0, 404, ""))
                 /\ UNCHANGED <<sessions, runs>>
            ELSE \E tests \in {None} \cup {Some(l) : l \in TestLists} :
                LET r1 == [r0 EXCEPT !.tests = tests]
                    ids == IF tests = None THEN ProjectTests(project) ELSE tests[1]
                    sid == Len(sessions) + 1
                    objs == SetupRuns(sid, ids)
                IN  IF \E i \in DOMAIN ids : ~TestBelongs(ids[i], project)
                    THEN /\ reqs' = Append(reqs, Answered(r1, 404, ""))
                         /\ UNCHANGED <<sessions, runs>>
                    ELSE /\ sessions' = Append(sessions, NewSession(project))
                         /\ runs' = runs \o Rows(objs)
                         /\ reqs' = Append(reqs, [r1 EXCEPT !.pc = "enqueue",
                                                           !.session = sid, !.runs = objs])
    /\ UNCHANGED <<cbs, sent, queue, qemu_urls, sel>>

\* the session's id handed to the task runner twice
ReqEnqueueTwice(r) ==
    /\ reqs[r].kind = "batch" /\ reqs[r].pc = "enqueue"
    /\ queue' = queue \o <<reqs[r].session, reqs[r].session>>
    /\ reqs' = [reqs EXCEPT ![r] = Answered(reqs[r], 200, "")]
    /\ UNCHANGED <<sessions, runs, cbs, sent, qemu_urls, sel>>

\* lines 243-245: the session's id is handed to the task runner and the session
\* is returned
ReqEnqueue(r) ==
    /\ reqs[r].kind = "batch" /\ reqs[r].pc = "enqueue"
    /\ queue' = Append(queue, reqs[r].session)
    /\ reqs' = [reqs EXCEPT ![r] = Answered(reqs[r], 200, "")]
    /\ UNCHANGED <<sessions, runs, cbs, sent, qemu_urls, sel>>

----------------------------------------------------------------------------
(* Callback Handler: notify_test_session *)

\* the writes of lines 203-209 made one by one, outside a transaction
NotAtomic == FALSE

\* line 202: the writes of lines 203-209 are made inside transaction.atomic()
InAtomic == TRUE

Callback ==
    [pc |-> "done", status |-> 0, project |-> "-", session |-> 0, token |-> "-",
     log |-> "-", code |-> <<>>, result |-> "-", obj |-> None, txS |-> None,
     msg |-> ""]

\* Once a callback is answered its frame is gone: what is left is the request
\* line (project, session), the token it carried, the answer (status, msg) and,
\* when int() raised, the code text it raised on
Replied(cb, status, msg) ==
    [Callback EXCEPT !.status = status, !.msg = msg, !.project = cb.project,
                     !.session = cb.session, !.token = cb.token,
                     !.code = IF msg = "ValueError" THEN cb.code ELSE <<>>]
Accepted(cb) == Replied(cb, 200, "")

\* the run objects of session.runs.all(), in pk order
RECURSIVE LoadRuns(_, _)
LoadRuns(sid, from) ==
    IF from > Len(runs) THEN <<>>
    ELSE IF runs[from].session = sid
    THEN <<[id |-> from, row |-> runs[from]]>> \o LoadRuns(sid, from + 1)
    ELSE LoadRuns(sid, from + 1)

\* the table with the buffered writes of a transaction applied
Commit(table, writes) ==
    [k \in DOMAIN table |->
        IF \E w \in DOMAIN writes : writes[w].id = k
        THEN writes[CHOOSE w \in DOMAIN writes :
                        /\ writes[w].id = k
                        /\ \A v \in DOMAIN writes : writes[v].id = k => v <= w].row
        ELSE table[k]]

\* the run completed without its code
CompletedRunNoCode(row, result, log, t) ==
    [row EXCEPT !.log = log, !.date_completed = Some(t)]
\* the log appended to the one the run holds
CompletedRunAppend(row, result, log, t) ==
    [row EXCEPT !.code = result, !.date_completed = Some(t),
                !.log = IF row.log = NoLog THEN log ELSE "appended"]

\* lines 203 and 206-208: the columns a callback sets
CompletedSession(row, t) == [row EXCEPT !.date_completed = Some(t)]
CompletedRun(row, result, log, t) ==
    [row EXCEPT !.code = result, !.log = log, !.date_completed = Some(t)]

\* lines 187-200: the lookups, the token check and the reading of log and code.
\* An empty code stands for a request without one: both end in an exception.
CbReceive ==
    /\ Len(reqs) + Len(cbs) < MaxHandlers
    /\ \E project \in ProjectIds, token \in Tokens :
        LET c0 == [Callback EXCEPT !.project = project, !.token = token]
        IN  IF project \notin Projects
            THEN cbs' = Append(cbs, Replied(c0, 404, ""))
            ELSE \E sid \in 1..(Len(sessions) + 1) :
                LET c1 == [c0 EXCEPT !.session = sid]
                IN  IF ~SessionOf(sid, project)
                    THEN cbs' = Append(cbs, Replied(c1, 404, ""))
                    ELSE IF ~TokenOk(token)
                    THEN cbs' = Append(cbs, Replied(c1, 403, ""))
                    ELSE \E log \in Logs \cup {Missing} :
                        LET c2 == [c1 EXCEPT !.log = log]
                        IN  IF log = Missing
                            THEN cbs' = Append(cbs, Replied(c2, 500, "KeyError"))
                            ELSE \E code \in CodeTexts \cup {<<>>} :
                                LET c3 == [c2 EXCEPT !.code = code]
                                    n == ParseInt(code)
                                IN  cbs' = Append(cbs,
                                        IF n = None THEN Replied(c3, 500, "ValueError")
                                        ELSE [c3 EXCEPT !.pc = "session",
                                                        !.result = ResultOf(n[1]),
                                                        !.obj = Some(sessions[sid])])
    /\ UNCHANGED <<sessions, runs, reqs, sent, queue, qemu_urls, sel>>

\* lines 202-204: inside the transaction the session object of line 188 is
\* saved with its completion time
CbSaveSession(c) ==
    /\ cbs[c].pc = "session"
    /\ \E t \in Times :
       LET sid == cbs[c].session
           row == CompletedSession(cbs[c].obj[1], t)
       IN  /\ sessions' = IF InAtomic THEN sessions ELSE [sessions EXCEPT ![sid] = row]
           /\ cbs' = [cbs EXCEPT ![c].obj = Some(row), ![c].pc = "runs",
                                 ![c].txS = IF InAtomic THEN Some(row) ELSE None]
    /\ UNCHANGED <<runs, reqs, sent, queue, qemu_urls, sel>>

\* lines 205-210: the runs of the session are fetched and each is saved with the
\* result, the log and its completion time; the transaction commits and the
\* callback is answered. (Of a fetched run only the pk and the columns that no
\* handler changes are used, so the fetch is taken at the saves.)
CbSaveRuns(c) ==
    /\ cbs[c].pc = "runs"
    /\ \E ts \in [RunsOf(cbs[c].session) -> Times] :
       LET cb == cbs[c]
           objs == LoadRuns(cb.session, 1)
           writes == [i \in DOMAIN objs |->
                        [id |-> objs[i].id,
                         row |-> CompletedRun(objs[i].row, cb.result, cb.log, ts[objs[i].id])]]
       IN  /\ runs' = Commit(runs, writes)
           /\ sessions' = IF InAtomic THEN [sessions EXCEPT ![cb.session] = cb.txS[1]]
                          ELSE sessions
           /\ cbs' = [cbs EXCEPT ![c] = Accepted(cb)]
    /\ UNCHANGED <<reqs, sent, queue, qemu_urls, sel>>

\* the writes made before the save that raises kept
CbAbortPartial(c) ==
    /\ cbs[c].pc \in {"session", "runs"}
    /\ sessions' = IF cbs[c].txS = None THEN sessions
                   ELSE [sessions EXCEPT ![cbs[c].session] = cbs[c].txS[1]]
    /\ cbs' = [cbs EXCEPT ![c] = Replied(cbs[c], 500, "DatabaseError")]
    /\ UNCHANGED <<runs, reqs, sent, queue, qemu_urls, sel>>

\* lines 202-209: a save raises inside the transaction (the database refuses the
\* write or is lost); transaction.atomic() rolls back what the block has written
\* and the exception leaves the view
DatabaseError == "DatabaseError"
CbAbort(c) ==
    /\ cbs[c].pc \in {"session", "runs"}
    /\ cbs' = [cbs EXCEPT ![c] = Replied(cbs[c], 500, DatabaseError)]
    /\ UNCHANGED <<sessions, runs, reqs, sent, queue, qemu_urls, sel>>

----------------------------------------------------------------------------

Init ==
    /\ sessions = <<>>
    /\ runs = <<>>
    /\ reqs = <<>>
    /\ cbs = <<>>
    /\ sent = {}
    /\ queue = <<>>
    /\ qemu_urls = DefaultUrls
    /\ sel = None

Next ==
    \/ ReqInteractive
    \/ \E r \in DOMAIN reqs : ReqPostDelivered(r)
    \/ \E r \in DOMAIN reqs : ReqPostOk(r)
    \/ \E r \in DOMAIN reqs : ReqPostFail(r)
    \/ ReqBatch
    \/ \E r \in DOMAIN reqs : ReqEnqueue(r)
    \/ CbReceive
    \/ \E c \in DOMAIN cbs : CbSaveSession(c)
    \/ \E c \in DOMAIN cbs : CbSaveRuns(c)
    \/ \E c \in DOMAIN cbs : CbAbort(c)

Spec == Init /\ [][Next]_vars

----------------------------------------------------------------------------
(* Progress: a handler that can take a step of its own takes it. A connection
   attempt ends, reaching the worker or failing; the answer of a worker that
   has been reached is awaited without a timeout (lines 161-164 pass none), so
   nothing makes it arrive. *)

ConnectStep ==
    \E r \in DOMAIN reqs :
        reqs[r].pc = "created" /\ (ReqPostDelivered(r) \/ ReqPostFail(r))
EnqueueStep == \E r \in DOMAIN reqs : ReqEnqueue(r)
CallbackStep ==
    \E c \in DOMAIN cbs : CbSaveSession(c) \/ CbSaveRuns(c) \/ CbAbort(c)

Fairness == WF_vars(ConnectStep) /\ WF_vars(EnqueueStep) /\ WF_vars(CallbackStep)

LiveSpec == Init /\ [][Next]_vars /\ Fairness

----------------------------------------------------------------------------
(* The worker selection of line 153 on its own, for every configuration *)

UrlLists == UNION {[1..n -> Addresses] : n \in 0..MaxUrls}

SelectInit ==
    /\ sessions = <<>>
    /\ runs = <<>>
    /\ reqs = <<>>
    /\ cbs = <<>>
    /\ sent = {}
    /\ queue = <<>>
    /\ qemu_urls \in UrlLists
    /\ sel = None

SelectWorker ==
    /\ \E host \in Hints, order \in Orders(Range(qemu_urls)) :
        sel' = Some([host |-> host, out |-> FirstMatch(order, host)])
    /\ UNCHANGED <<sessions, runs, reqs, cbs, sent, queue, qemu_urls>>

SelectNext == SelectWorker

SelectSpec == SelectInit /\ [][SelectNext]_vars

----------------------------------------------------------------------------
(* Properties *)

Complete(s) == sessions[s].date_completed # None
AllTerminal(s) == \A i \in RunsOf(s) : runs[i].code \in Terminal
SomePending(s) == \E i \in RunsOf(s) : runs[i].code = PENDING
DispatchErrors == {ConnectionError, HTTPError}

\* C1 as stated, for the sessions that own a run: a session is complete if and
\* only if every run it owns has a terminal code.
C1_CompleteIffAllTerminal ==
    \A s \in DOMAIN sessions : RunsOf(s) # {} => (Complete(s) <=> AllTerminal(s))

\* C1, amended: a session is complete only if every run it owns has a terminal
\* code (PASSED, FAILED or ERROR).
C1_CompleteOnlyIfAllTerminal ==
    \A s \in DOMAIN sessions : Complete(s) => AllTerminal(s)

C1_Witness ==
    \E s \in DOMAIN sessions : Complete(s) /\ Cardinality(RunsOf(s)) = 2 /\ AllTerminal(s)

\* C2: while a callback is inside its transaction, the session it completes is
\* never visible as complete with one of its runs PENDING; and the step that
\* makes a completion time visible makes the code, log and completion time of
\* every run of the session visible with it.
C2_AtomicCompletion ==
    /\ [](\A c \in DOMAIN cbs :
            cbs[c].pc \in {"session", "runs"} =>
                ~(Complete(cbs[c].session) /\ SomePending(cbs[c].session)))
    /\ [][\A s \in DOMAIN sessions :
            sessions'[s].date_completed # sessions[s].date_completed =>
                \A i \in RunsOf(s) :
                    /\ runs'[i].code \in Terminal
                    /\ runs'[i].log \in Logs
                    /\ runs'[i].date_completed # None]_vars

C2_Witness ==
    \E c \in DOMAIN cbs :
        /\ cbs[c].pc = "runs" /\ cbs[c].txS # None
        /\ ~Complete(cbs[c].session)
        /\ Cardinality(RunsOf(cbs[c].session)) = 2
        /\ \A i \in RunsOf(cbs[c].session) : runs[i].code = PENDING

\* C3: the step in which an interactive request returns the failure of its
\* dispatch call leaves every run the request created with code ERROR and the
\* failure message as log.
C3_DispatchFailureMarksRuns ==
    [][\A r \in DOMAIN reqs :
        (reqs[r].pc \in {"created", "waiting"} /\ reqs'[r].pc = "done"
            /\ reqs'[r].msg \in DispatchErrors) =>
            /\ reqs'[r].status = 500
            /\ RunsOf(reqs[r].session) # {}
            /\ \A i \in RunsOf(reqs[r].session) :
                runs'[i].code = ERROR /\ runs'[i].log = reqs'[r].msg]_vars

C3_Witness ==
    \E r \in DOMAIN reqs :
        /\ reqs[r].kind = "interactive" /\ reqs[r].pc = "done"
        /\ reqs[r].status = 500 /\ reqs[r].msg = HTTPError
        /\ RunsOf(reqs[r].session) # {}
        /\ \A i \in RunsOf(reqs[r].session) :
            runs[i].code = ERROR /\ runs[i].log = HTTPError

\* C4: an accepted callback gives every run of its session the result of its
\* code (0: PASSED, 1: FAILED, any other integer: ERROR) and its log, and no
\* callback is refused for the value of an integer code.
IntegerTexts == {<<"0">>, <<"1">>, <<"7">>, <<"-", "1">>}
ExpectedResult(text) ==
    IF text = <<"0">> THEN PASSED ELSE IF text = <<"1">> THEN FAILED ELSE ERROR
C4_CallbackResult ==
    /\ [](\A c \in DOMAIN cbs :
            /\ cbs[c].pc # "done" =>
                cbs[c].code \in IntegerTexts /\ cbs[c].result = ExpectedResult(cbs[c].code)
            /\ cbs[c].msg = "ValueError" => cbs[c].code \notin IntegerTexts)
    /\ [][\A c \in DOMAIN cbs :
            (cbs[c].pc = "runs" /\ cbs'[c].pc = "done" /\ cbs'[c].status = 200) =>
                /\ \A i \in RunsOf(cbs[c].session) :
                    /\ runs'[i].code = ExpectedResult(cbs[c].code)
                    /\ runs'[i].log = cbs[c].log]_vars

C4_Witness ==
    \E c \in DOMAIN cbs :
        /\ cbs[c].status = 200
        /\ Cardinality(RunsOf(cbs[c].session)) = 2
        /\ \A i \in RunsOf(cbs[c].session) : runs[i].code = ERROR /\ runs[i].log \in Logs

\* C5 as stated: a callback whose token differs from the shared secret is
\* answered 403 and changes no session and no run.
C5_WrongTokenForbidden ==
    [][Len(cbs') > Len(cbs) =>
        LET cb == cbs'[Len(cbs')]
        IN  cb.token # Secret =>
                /\ cb.pc = "done" /\ cb.status = 403
                /\ sessions' = sessions /\ runs' = runs]_vars

\* C5, as the code answers: a callback whose token differs from the shared secret is
\* answered 403 when it names a session of the project it names and 404 when
\* it does not (the lookups come first), and changes no session and no run.
C5_WrongTokenRejected ==
    [][Len(cbs') > Len(cbs) =>
        LET cb == cbs'[Len(cbs')]
            found == /\ cb.session \in DOMAIN sessions
                     /\ sessions[cb.session].project = cb.project
        IN  cb.token # Secret =>
                /\ cb.pc = "done"
                /\ cb.status = IF found THEN 403 ELSE 404
                /\ sessions' = sessions /\ runs' = runs]_vars

C5_Witness ==
    \E c \in DOMAIN cbs :
        /\ cbs[c].token \in LaunchTokens /\ cbs[c].status = 403
        /\ cbs[c].session \in DOMAIN sessions
        /\ ~Complete(cbs[c].session) /\ SomePending(cbs[c].session)

\* C6: once a run has a terminal code, its code never changes again.
C6_TerminalCodeNeverChanges ==
    [][\A i \in DOMAIN runs :
        runs[i].code \in Terminal => runs'[i].code = runs[i].code]_vars

\* C7: once a session's completion time is set, no later step changes it.
C7_CompletionSetOnce ==
    [][\A s \in DOMAIN sessions :
        Complete(s) => sessions'[s].date_completed = sessions[s].date_completed]_vars

\* C8: an interactive request that names a test of another project is answered
\* 404 and creates nothing: every session and every run belongs to a request
\* that was not refused, and every dispatch to one whose test is the project's.
Owns(project, test) == <<project, test>> \in {<<"p1", "t1">>, <<"p1", "t2">>}
C8_ForeignTestNotFound ==
    /\ \A r \in DOMAIN reqs :
        (reqs[r].kind = "interactive" /\ reqs[r].test # "-"
            /\ ~Owns(reqs[r].project, reqs[r].test)) =>
            reqs[r].pc = "done" /\ reqs[r].status = 404 /\ reqs[r].session = 0
    /\ \A r \in DOMAIN reqs : reqs[r].status = 404 => reqs[r].session = 0
    /\ Len(sessions) = Cardinality({r \in DOMAIN reqs : reqs[r].session # 0})
    /\ \A i \in DOMAIN runs :
        \E r \in DOMAIN reqs : reqs[r].session = runs[i].session
    /\ \A d \in sent :
        \E r \in DOMAIN reqs :
            /\ reqs[r].kind = "interactive" /\ reqs[r].session = d.session
            /\ Owns(reqs[r].project, reqs[r].test)

C8_Witness ==
    /\ \E r \in DOMAIN reqs :
        /\ reqs[r].kind = "interactive" /\ reqs[r].project = "p2"
        /\ reqs[r].test = "t1" /\ reqs[r].status = 404
    /\ sessions = <<>> /\ runs = <<>> /\ sent = {}

\* C9: a callback committed on a session that already shows the outcome of the
\* same callback (complete, every run with this code and this log) is answered
\* 200, unless a save raises, and leaves every run with the same code and log,
\* and the session and its runs with a completion time.
C9_RedeliveryKeepsOutcome ==
    [][\A c \in DOMAIN cbs :
        LET s == cbs[c].session
        IN  (/\ cbs[c].pc = "runs" /\ cbs'[c].pc = "done"
             /\ \E d \in DOMAIN cbs : d # c /\ cbs[d].session = s /\ cbs[d].status = 200
             /\ Complete(s)
             /\ \A i \in RunsOf(s) :
                    /\ runs[i].code = cbs[c].result /\ runs[i].log = cbs[c].log
                    /\ runs[i].date_completed # None) =>
                /\ cbs'[c].status = 200 \/ cbs'[c].msg = DatabaseError
                /\ sessions'[s].date_completed # None
                /\ \A i \in RunsOf(s) :
                    /\ runs'[i].code = runs[i].code /\ runs'[i].log = runs[i].log
                    /\ runs'[i].date_completed # None]_vars

C9_Witness ==
    \E c, d \in DOMAIN cbs :
        /\ c # d /\ cbs[c].session = cbs[d].session
        /\ cbs[c].status = 200 /\ cbs[d].status = 200
        /\ Complete(cbs[c].session)
        /\ RunsOf(cbs[c].session) # {}
        /\ \A i \in RunsOf(cbs[c].session) :
            runs[i].code = FAILED /\ runs[i].log \in Logs /\ runs[i].date_completed # None

\* C10: the worker selection returns a configured address that contains the
\* hint whenever one does, and fails, returning none, when none does.
Contains(x, host) ==
    \E a \in 0..Len(x) :
        a + Len(host) <= Len(x) /\ \A k \in 1..Len(host) : x[a + k] = host[k]
C10_SelectWorker ==
    sel # None =>
        LET matching == {x \in Range(qemu_urls) : Contains(x, sel[1].host)}
        IN  IF matching # {}
            THEN sel[1].out # None /\ sel[1].out[1] \in matching
            ELSE sel[1].out = None

C10_Witness ==
    /\ sel # None /\ sel[1].out # None
    /\ Cardinality({x \in Range(qemu_urls) : Contains(x, sel[1].host)}) = 2
    /\ sel[1].out[1] = <<"a", "1", "0">>

Count(seq, x) == Cardinality({k \in DOMAIN seq : seq[k] = x})

Found(c) == cbs[c].status # 404
Decision(c) == IF cbs[c].status = 403 THEN "forbidden" ELSE "passed"
C12_TokenDecision ==
    /\ \A c, d \in DOMAIN cbs :
        (Found(c) /\ Found(d) /\ cbs[c].token = cbs[d].token) =>
            Decision(c) = Decision(d)
    /\ \A c \in DOMAIN cbs :
        Found(c) => (Decision(c) = "passed" <=> cbs[c].token = Secret)

C12_Witness ==
    \E c, d \in DOMAIN cbs :
        /\ cbs[c].session = cbs[d].session
        /\ cbs[c].status = 403
        /\ \E m \in sent : m.session = cbs[c].session /\ m.token = cbs[c].token
        /\ cbs[d].status = 200 /\ cbs[d].token = Secret
        /\ Complete(cbs[d].session)

FailedDispatch(r) ==
    /\ reqs[r].kind = "interactive" /\ reqs[r].pc = "done"
    /\ reqs[r].msg \in DispatchErrors

\* C13: every run that has code ERROR has a completion time; in particular the
\* runs that the failure of a dispatch has marked.
C13_ErrorRunHasCompletionTime ==
    \A i \in DOMAIN runs : runs[i].code = ERROR => runs[i].date_completed # None

\* the step in which request r returns the failure of its dispatch call
DispatchFails(r) ==
    /\ reqs[r].pc \in {"created", "waiting"} /\ reqs'[r].pc = "done"
    /\ reqs'[r].msg \in DispatchErrors
\* the step in which callback c commits and is accepted
Commits(c) == cbs[c].pc = "runs" /\ cbs'[c].pc = "done" /\ cbs'[c].status = 200

\* C14: the step in which an interactive request returns the failure of its
\* dispatch call changes no session and no run of another session, and a
\* session's completion time changes only in the step in which a callback that
\* names the session commits.
C14_FailureHandlingFrame ==
    /\ [][\A r \in DOMAIN reqs :
            DispatchFails(r) =>
                /\ sessions' = sessions
                /\ \A i \in DOMAIN runs :
                    runs[i].session # reqs[r].session => runs'[i] = runs[i]]_vars
    /\ [][\A s \in DOMAIN sessions :
            sessions'[s].date_completed # sessions[s].date_completed =>
                \E c \in DOMAIN cbs : Commits(c) /\ cbs[c].session = s]_vars

C14_Witness ==
    \E r \in DOMAIN reqs :
        /\ FailedDispatch(r)
        /\ ~Complete(reqs[r].session)
        /\ \A i \in RunsOf(reqs[r].session) : runs[i].code = ERROR
        /\ \E i \in DOMAIN runs : runs[i].session # reqs[r].session /\ runs[i].code = PENDING

\* C15: when an interactive request has returned a failure to its caller, no
\* run that it created is PENDING.
C15_NoPendingAfterFailure ==
    \A r \in DOMAIN reqs :
        (reqs[r].kind = "interactive" /\ reqs[r].pc = "done" /\ reqs[r].status = 500) =>
            \A i \in RunsOf(reqs[r].session) : runs[i].code # PENDING

\* C16: the dispatch call of an interactive request is sent when its session
\* and run exist and no call has been sent for the session before; nothing else
\* sends a call, so there is one call per session at most; a run gets the
\* message of a failed call as log only in the step in which the request that
\* created it returns that failure; and a callback goes past its lookups only
\* for a session that exists.
Dispatches(r) == reqs[r].pc = "created" /\ reqs'[r].pc = "waiting"
C16_DispatchOrder ==
    /\ [](/\ \A d \in sent : d.session \in DOMAIN sessions /\ RunsOf(d.session) # {}
          /\ \A d, e \in sent : d.session = e.session => d = e
          /\ \A c \in DOMAIN cbs : Found(c) => cbs[c].session \in DOMAIN sessions)
    /\ [][\A r \in DOMAIN reqs :
            Dispatches(r) =>
                /\ reqs[r].session \in DOMAIN sessions
                /\ RunsOf(reqs[r].session) # {}
                /\ \A d \in sent : d.session # reqs[r].session
                /\ \E d \in sent' : d.session = reqs[r].session]_vars
    /\ [][sent' # sent =>
            \E r \in DOMAIN reqs :
                /\ Dispatches(r)
                /\ \A d \in sent' \ sent : d.session = reqs[r].session]_vars
    /\ [][\A i \in DOMAIN runs :
            (runs'[i].log \in DispatchErrors /\ runs'[i] # runs[i]) =>
                \E r \in DOMAIN reqs :
                    DispatchFails(r) /\ reqs[r].session = runs[i].session]_vars

C16_Witness ==
    \E r \in DOMAIN reqs, c \in DOMAIN cbs :
        /\ reqs[r].kind = "interactive" /\ reqs[r].pc = "done" /\ reqs[r].status = 200
        /\ \E d \in sent : d.session = reqs[r].session
        /\ cbs[c].session = reqs[r].session /\ cbs[c].status = 200
        /\ Complete(reqs[r].session)

\* C17: every interactive request that has been received eventually returns to
\* its caller.
C17_RequestReturns ==
    \A r \in 1..MaxHandlers :
        (r \in DOMAIN reqs /\ reqs[r].kind = "interactive")
            ~> (r \in DOMAIN reqs /\ reqs[r].pc = "done")

\* C18: a run changes only in the step in which a callback that names its
\* session commits, or in the step in which the interactive request that
\* created it returns the failure of its dispatch call; every other step leaves
\* its code, log and completion time as they are.
C18_RunFrame ==
    [][\A i \in DOMAIN runs :
        runs'[i] # runs[i] =>
            \/ \E c \in DOMAIN cbs : Commits(c) /\ cbs[c].session = runs[i].session
            \/ \E r \in DOMAIN reqs :
                /\ reqs[r].kind = "interactive" /\ DispatchFails(r)
                /\ \E k \in DOMAIN reqs[r].runs : reqs[r].runs[k].id = i]_vars

C18_Witness ==
    \E r \in DOMAIN reqs, c \in DOMAIN cbs :
        /\ reqs[r].pc = "done" /\ reqs[r].status = 200
        /\ cbs[c].status = 200 /\ cbs[c].session # reqs[r].session
        /\ RunsOf(reqs[r].session) # {}
        /\ \A i \in RunsOf(reqs[r].session) : runs[i].code = PENDING
        /\ \E q \in DOMAIN reqs : FailedDispatch(q) /\ reqs[q].session = cbs[c].session

\* C19: every step of a callback other than its commit leaves every session and
\* every run as it is: the answers 404 (no such project, no such session in the
\* project), 403, and 500 (a field is missing, the code is not an integer, a
\* save raises inside the transaction) change nothing, and a callback that has
\* not committed has changed nothing.
C19_FailedCallbackNoChange ==
    /\ [](\A c \in DOMAIN cbs :
            (cbs[c].pc = "done") <=> (cbs[c].status \in {200, 403, 404, 500}))
    /\ [][\A c \in DOMAIN cbs' :
            ((c \notin DOMAIN cbs \/ cbs'[c] # cbs[c]) /\ cbs'[c].status # 200) =>
                sessions' = sessions /\ runs' = runs]_vars

C19_Witness ==
    \E c \in DOMAIN cbs :
        /\ cbs[c].status = 500 /\ cbs[c].msg = DatabaseError
        /\ ~Complete(cbs[c].session)
        /\ Cardinality(RunsOf(cbs[c].session)) = 2
        /\ \A i \in RunsOf(cbs[c].session) :
            runs[i].code = PENDING /\ runs[i].date_completed = None
        /\ \E d \in DOMAIN cbs : cbs[d].status = 500 /\ cbs[d].msg = "ValueError"

\* C20: when an interactive request returns the failure of a dispatch call that
\* had reached the worker, every run of its session that a callback has already
\* completed keeps the code, log and completion time the callback gave it.
C20_FailureKeepsCallbackResult ==
    [][\A r \in DOMAIN reqs :
        (reqs[r].pc = "waiting" /\ DispatchFails(r)) =>
            \A i \in RunsOf(reqs[r].session) :
                runs[i].date_completed # None =>
                    /\ runs'[i].code = runs[i].code
                    /\ runs'[i].log = runs[i].log
                    /\ runs'[i].date_completed = runs[i].date_completed]_vars

====
